---- MODULE Spec2Model ----
(***************************************************************************)
(* Smart Habit Tracker (src/main.py): the two repositories (SQLiteRepo,    *)
(* MemoryRepo) driven by the same calls, and the Habit analyzers           *)
(* (_update_streak and the three recommendation methods).                  *)
(*                                                                         *)
(* Amounts and targets are floats in the program; the model draws them     *)
(* from small integers, on which float arithmetic is exact.  A date is the *)
(* ordinal of a calendar day; date - timedelta(days=k) is d - k.           *)
(***************************************************************************)
EXTENDS Integers, Sequences, FiniteSets, TLC

VARIABLES sql, mem, call, sql_ret, mem_ret,
          htype, htarget, logs, streak, rec

vars == <<sql, mem, call, sql_ret, mem_ret, htype, htarget, logs, streak, rec>>
repo_vars == <<sql, mem, call, sql_ret, mem_ret>>
habit_vars == <<htype, htarget, logs, streak, rec>>

----------------------------------------------------------------------------
(* Bounds and input sets *)

MaxHabits == 2
MaxLogs == 2

\* HabitFactory.TYPES: the keys of the kind enumeration
TYPES == {"Exercise (minutes)", "Study (minutes)", "Sleep (hours)"}

Names == {"", "Run"}
KindInputs == {"Sleep (hours)", "Yoga"}
TargetInputs == {-1, 1}
AmountInputs == {-1, 1}
RepoDates == 9..10

\* add_habit is given a valid habit, or one with a single field invalid
\* (empty name, kind outside TYPES, negative target)
InvalidFields(name, h_type, target) ==
    (IF name = "" THEN 1 ELSE 0) + (IF h_type \notin TYPES THEN 1 ELSE 0)
        + (IF target < 0 THEN 1 ELSE 0)
HabitInputs ==
    {x \in Names \X KindInputs \X TargetInputs : InvalidFields(x[1], x[2], x[3]) <= 1}
\* a negative amount is tried on the later date only
LogInputs == {x \in RepoDates \X AmountInputs : x[2] >= 0 \/ x[1] = 10}
HabitIds == 1..MaxHabits

----------------------------------------------------------------------------
(* Date <-> TEXT conversion of the logs table *)

\* date.isoformat(): the zero-padded day field of "YYYY-MM-DD" (year and
\* month are the same for all modelled dates), as a sequence of digits
IsoFormat(d) == <<d \div 10, d % 10>>

\* pd.to_datetime(text).dt.date
ToDate(s) == 10 * s[1] + s[2]

\* SQLite's comparison of two TEXT values (memcmp: lexicographic)
TextLess(s, t) ==
    \/ \E i \in 1..Len(s) :
          /\ i <= Len(t)
          /\ \A j \in 1..(i - 1) : s[j] = t[j]
          /\ s[i] < t[i]
    \/ /\ Len(s) < Len(t)
       /\ \A j \in 1..Len(s) : s[j] = t[j]

\* the value a repository method hands back: the returned value, or an
\* exception raised
Returned(v) == [raised |-> FALSE, value |-> v]
None == "None"

----------------------------------------------------------------------------
(* SQLiteRepo *)

\* _init_db on a fresh database file: two empty tables, no sqlite_sequence rows
SQLiteRepo_init ==
    [habits |-> {}, logs |-> {}, seq |-> [habits |-> 0, logs |-> 0]]

\* INSERT INTO habits: AUTOINCREMENT takes sqlite_sequence + 1; NOT NULL
\* accepts the empty string; nothing checks type or target
SQLiteRepo_add_habit(db, name, h_type, target) ==
    LET id == db.seq.habits + 1
    IN  [db  |-> [db EXCEPT !.habits = @ \cup {[id |-> id, name |-> name,
                                                 type |-> h_type, target |-> target]},
                            !.seq.habits = id],
         ret |-> Returned(id)]

\* rows of a table as a sequence, largest id first
RECURSIVE OrderByIdDesc(_)
OrderByIdDesc(rows) ==
    IF rows = {} THEN <<>>
    ELSE LET r == CHOOSE x \in rows : \A y \in rows : y.id <= x.id
         IN  <<r>> \o OrderByIdDesc(rows \ {r})

\* SELECT * FROM habits ORDER BY id DESC
SQLiteRepo_list_habits(db) ==
    [db |-> db, ret |-> Returned(OrderByIdDesc(db.habits))]

\* DELETE FROM logs WHERE habit_id=?; DELETE FROM habits WHERE id=?
SQLiteRepo_delete_habit(db, habit_id) ==
    [db  |-> [db EXCEPT !.logs = {r \in @ : r.habit_id # habit_id},
                        !.habits = {r \in @ : r.id # habit_id}],
     ret |-> Returned(None)]

\* INSERT INTO logs: the FOREIGN KEY clause is declared but the connection
\* never runs PRAGMA foreign_keys=ON, so SQLite does not enforce it
SQLiteRepo_add_log(db, habit_id, date, amount) ==
    LET id == db.seq.logs + 1
    IN  [db  |-> [db EXCEPT !.logs = @ \cup {[id |-> id, habit_id |-> habit_id,
                                               date |-> IsoFormat(date),
                                               amount |-> amount]},
                            !.seq.logs = id],
         ret |-> Returned(None)]

\* ORDER BY date ASC over TEXT dates; rows of equal date in rowid order (SQL
\* leaves their order open; no formula below depends on it)
RECURSIVE OrderByDateAsc(_)
OrderByDateAsc(rows) ==
    IF rows = {} THEN <<>>
    ELSE LET r == CHOOSE x \in rows : \A y \in rows \ {x} :
                      \/ TextLess(x.date, y.date)
                      \/ (x.date = y.date /\ x.id < y.id)
         IN  <<r>> \o OrderByDateAsc(rows \ {r})

\* SELECT date, amount FROM logs WHERE habit_id=? ORDER BY date ASC, then
\* the date column converted back to dates
SQLiteRepo_get_logs(db, habit_id) ==
    LET sorted == OrderByDateAsc({r \in db.logs : r.habit_id = habit_id})
    IN  [db  |-> db,
         ret |-> Returned([i \in 1..Len(sorted) |->
                             [date |-> ToDate(sorted[i].date),
                              amount |-> sorted[i].amount]])]

----------------------------------------------------------------------------
(* MemoryRepo *)

\* __init__
MemoryRepo_init ==
    [habits |-> <<>>, logs |-> <<>>, next_id |-> 1]

\* dict.pop(k, None)
Pop(d, k) == [x \in DOMAIN d \ {k} |-> d[x]]

\* d[k] = v
SetItem(d, k, v) == [x \in DOMAIN d \cup {k} |-> IF x = k THEN v ELSE d[x]]

\* add_habit: takes _next_id, stores the record and an empty log list
MemoryRepo_add_habit(m, name, h_type, target) ==
    LET hid == m.next_id
    IN  [db  |-> [habits  |-> SetItem(m.habits, hid,
                                      [id |-> hid, name |-> name,
                                       type |-> h_type, target |-> target]),
                  logs    |-> SetItem(m.logs, hid, <<>>),
                  next_id |-> hid + 1],
         ret |-> Returned(hid)]

\* list_habits: the records sorted by id, descending
MemoryRepo_list_habits(m) ==
    [db  |-> m,
     ret |-> Returned(OrderByIdDesc({m.habits[k] : k \in DOMAIN m.habits}))]

\* delete_habit that forgets self._logs.pop
MemoryRepo_delete_habit_keeps_logs(m, habit_id) ==
    [db  |-> [m EXCEPT !.habits = Pop(@, habit_id)],
     ret |-> Returned(None)]

\* delete_habit: pops the habit and its log list, each if present
MemoryRepo_delete_habit(m, habit_id) ==
    [db  |-> [m EXCEPT !.habits = Pop(@, habit_id),
                       !.logs = Pop(@, habit_id)],
     ret |-> Returned(None)]

\* add_log: self._logs.setdefault(habit_id, []).append((date, amount))
MemoryRepo_add_log(m, habit_id, date, amount) ==
    LET old == IF habit_id \in DOMAIN m.logs THEN m.logs[habit_id] ELSE <<>>
    IN  [db  |-> [m EXCEPT !.logs = SetItem(@, habit_id,
                                Append(old, [date |-> date, amount |-> amount]))],
         ret |-> Returned(None)]

\* get_logs: the stored list, in the order the entries were appended
MemoryRepo_get_logs(m, habit_id) ==
    [db  |-> m,
     ret |-> Returned(IF habit_id \in DOMAIN m.logs THEN m.logs[habit_id] ELSE <<>>)]

----------------------------------------------------------------------------
(* The two repositories under the same sequence of calls *)

\* no dashboard is computed while only the repositories are driven
InitHabit ==
    /\ htype = "Exercise (minutes)"
    /\ htarget = 0
    /\ logs = <<>>
    /\ streak = 0
    /\ rec = ""

Init ==
    /\ sql = SQLiteRepo_init
    /\ mem = MemoryRepo_init
    /\ call = [op |-> "init"]
    /\ sql_ret = Returned(None)
    /\ mem_ret = Returned(None)
    /\ InitHabit

Apply(s, m) ==
    /\ sql' = s.db
    /\ sql_ret' = s.ret
    /\ mem' = m.db
    /\ mem_ret' = m.ret
    /\ UNCHANGED habit_vars

AddHabit(name, h_type, target) ==
    /\ sql.seq.habits < MaxHabits
    /\ call' = [op |-> "add_habit", name |-> name, h_type |-> h_type, target |-> target]
    /\ Apply(SQLiteRepo_add_habit(sql, name, h_type, target),
             MemoryRepo_add_habit(mem, name, h_type, target))

ListHabits ==
    /\ call' = [op |-> "list_habits"]
    /\ Apply(SQLiteRepo_list_habits(sql), MemoryRepo_list_habits(mem))

DeleteHabit(habit_id) ==
    /\ call' = [op |-> "delete_habit", habit_id |-> habit_id,
                existed |-> \E r \in sql.habits : r.id = habit_id,
                had_logs |-> Cardinality({r \in sql.logs : r.habit_id = habit_id})]
    /\ Apply(SQLiteRepo_delete_habit(sql, habit_id),
             MemoryRepo_delete_habit(mem, habit_id))

AddLog(habit_id, date, amount) ==
    /\ sql.seq.logs < MaxLogs
    /\ call' = [op |-> "add_log", habit_id |-> habit_id, date |-> date, amount |-> amount]
    /\ Apply(SQLiteRepo_add_log(sql, habit_id, date, amount),
             MemoryRepo_add_log(mem, habit_id, date, amount))

GetLogs(habit_id) ==
    /\ call' = [op |-> "get_logs", habit_id |-> habit_id]
    /\ Apply(SQLiteRepo_get_logs(sql, habit_id), MemoryRepo_get_logs(mem, habit_id))

Next ==
    \/ \E x \in HabitInputs : AddHabit(x[1], x[2], x[3])
    \/ ListHabits
    \/ \E h \in HabitIds : DeleteHabit(h)
    \/ \E h \in HabitIds, x \in LogInputs : AddLog(h, x[1], x[2])
    \/ \E h \in HabitIds : GetLogs(h)

Spec == Init /\ [][Next]_vars

----------------------------------------------------------------------------
(* Claims about the repositories, checked under Spec *)

SqlHabitIds == {r.id : r \in sql.habits}
MemHabitIds == DOMAIN mem.habits
Unknown(habit_id) == habit_id \notin SqlHabitIds /\ habit_id \notin MemHabitIds

HabitsAndLogsUnchanged ==
    /\ sql'.habits = sql.habits /\ sql'.logs = sql.logs
    /\ mem'.habits = mem.habits /\ mem'.logs = mem.logs

\* C1: add_log with a habit_id that is not the id of an existing habit fails
\* in both repositories and leaves the habits and the log entries as they were.
AddLogUnknownHabitRejected ==
    [][(call'.op = "add_log" /\ Unknown(call'.habit_id))
          => (sql_ret'.raised /\ mem_ret'.raised /\ HabitsAndLogsUnchanged)]_vars

\* C2: right after delete_habit(h), h is in neither list_habits() result, no
\* log entry of h is left in either store, and get_logs(h) is empty in both.
CascadeDelete ==
    call.op = "delete_habit" =>
        LET h == call.habit_id
            sl == SQLiteRepo_list_habits(sql).ret.value
            ml == MemoryRepo_list_habits(mem).ret.value
        IN  /\ \A i \in 1..Len(sl) : sl[i].id # h
            /\ \A i \in 1..Len(ml) : ml[i].id # h
            /\ \A r \in sql.logs : r.habit_id # h
            /\ h \notin DOMAIN mem.logs
            /\ SQLiteRepo_get_logs(sql, h).ret.value = <<>>
            /\ MemoryRepo_get_logs(mem, h).ret.value = <<>>

\* C2 witness: an existing habit that had a log entry has just been deleted,
\* while another habit and its log entry are still stored.
CascadeDeleteWitness ==
    /\ call.op = "delete_habit"
    /\ call.existed
    /\ call.had_logs >= 1
    /\ \E r \in sql.logs : r.habit_id \in SqlHabitIds
    /\ \E h \in MemHabitIds : mem.logs[h] # <<>>

\* C3: every call returns the same result from SQLiteRepo and from MemoryRepo.
BackendsAgree == sql_ret = mem_ret

IsSortedByDate(df) == \A i, j \in 1..Len(df) : i < j => df[i].date <= df[j].date

\* the number of times entry e occurs in the frame df
Occurrences(df, e) == Cardinality({i \in 1..Len(df) : df[i] = e})

\* C9: get_logs(h) returns the entries of h and only those, sorted ascending
\* by date, in both repositories.
GetLogsSortedByDate ==
    call.op = "get_logs" =>
        LET h == call.habit_id
            sv == sql_ret.value
            mv == mem_ret.value
            stored == IF h \in DOMAIN mem.logs THEN mem.logs[h] ELSE <<>>
        IN  /\ IsSortedByDate(sv)
            /\ IsSortedByDate(mv)
            /\ Len(sv) = Cardinality({r \in sql.logs : r.habit_id = h})
            /\ \A r \in sql.logs : r.habit_id = h =>
                   \E i \in 1..Len(sv) :
                       sv[i] = [date |-> ToDate(r.date), amount |-> r.amount]
            /\ \A i \in 1..Len(mv) : Occurrences(mv, mv[i]) = Occurrences(stored, mv[i])
            /\ Len(mv) = Len(stored)

\* C8: delete_habit of an id that is no existing habit raises nothing and
\* leaves both stores exactly as they were.
DeleteUnknownIsNoOp ==
    [][(call'.op = "delete_habit" /\ Unknown(call'.habit_id))
          => (~sql_ret'.raised /\ ~mem_ret'.raised /\ sql' = sql /\ mem' = mem)]_vars

ValidHabit(name, h_type, target) == name # "" /\ h_type \in TYPES /\ target >= 0

\* C10: add_habit with an empty name, a kind outside TYPES or a negative
\* target, and add_log with a negative amount, raise an error and leave both
\* stores (ids included) exactly as they were.
InvalidInputRejected ==
    [][(\/ call'.op = "add_habit"
           /\ ~ValidHabit(call'.name, call'.h_type, call'.target)
        \/ call'.op = "add_log" /\ call'.amount < 0)
          => (sql_ret'.raised /\ mem_ret'.raised /\ sql' = sql /\ mem' = mem)]_vars

----------------------------------------------------------------------------
(* Habit: streak and recommendations over the frame get_logs returns *)

MaxEntries == 3
MaxAmount == 2

\* the trailing window reaches back timedelta(days=6) from today
WindowDays == 6

\* dt.date.today(), the same day throughout a run
Today == 8

\* the dates a check-in can carry: from the day before the window to tomorrow
CheckinDates == (Today - WindowDays - 1)..(Today + 1)
Amounts == 0..MaxAmount
Targets == 0..MaxAmount

RECURSIVE SumAmount(_)
\* df["amount"].sum()
SumAmount(df) == IF df = <<>> THEN 0 ELSE Head(df).amount + SumAmount(Tail(df))

\* the index of df.groupby("date"): the dates that have a row
GroupDates(df) == {df[i].date : i \in 1..Len(df)}

\* df.groupby("date")["amount"].sum() at date d
GroupSum(df, d) == SumAmount(SelectSeq(df, LAMBDA r : r.date = d))

\* d in met.index and met.loc[d]
MetOn(df, target, d) == d \in GroupDates(df) /\ GroupSum(df, d) >= target

RECURSIVE WalkBack(_, _, _)
\* while d in met.index and met.loc[d]: streak += 1; d -= one day
WalkBack(df, target, d) ==
    IF MetOn(df, target, d) THEN 1 + WalkBack(df, target, d - 1) ELSE 0

\* _update_streak without the second walk from yesterday
Habit_update_streak_today_only(logs_df, target) ==
    IF logs_df = <<>> THEN 0 ELSE WalkBack(logs_df, target, Today)

\* Habit._update_streak (refresh_metrics calls nothing else)
Habit_update_streak(logs_df, target) ==
    IF logs_df = <<>> THEN 0
    ELSE LET first == WalkBack(logs_df, target, Today)
         IN  IF first = 0 THEN WalkBack(logs_df, target, Today - 1) ELSE first

\* recent_df[recent_df["date"] >= today - timedelta(days=6)]
Last7(recent_df) == SelectSeq(recent_df, LAMBDA r : r.date >= Today - WindowDays)

\* the tips of the three recommendation methods (dashes and the plus-minus
\* sign written in ASCII)
RestDay == "Great pace - consider adding a rest day"
Increase == "Try 10-15% incremental increase next week"
Pomodoro == "Lock in a Pomodoro block (25/5) at a fixed hour."
LevelUp == "Level up: add spaced-repetition review."
NoData == "No recent data. Aim for a consistent bedtime window (+/-30 min)."
Maintain == "Bedtime consistency looks good - maintain routine."
ScreenOff == "Large variance - set a fixed screen-off time 1 hour before bed."

\* ExerciseHabit.recommendation: avg is the mean of the rows' amounts
\* (avg >= target, with both sides multiplied by the number of rows)
ExerciseHabit_recommendation(recent_df, target) ==
    LET last7 == Last7(recent_df)
    IN  IF last7 = <<>>
        THEN (IF 0 >= target THEN RestDay ELSE Increase)
        ELSE (IF SumAmount(last7) >= target * Len(last7) THEN RestDay ELSE Increase)

\* StudyHabit.recommendation: consistency is the mean of the per-date
\* booleans "sum >= target" over the dates that have a row
\* (consistency < 0.6, with both sides multiplied by 10 * number of dates)
StudyHabit_recommendation(recent_df, target) ==
    LET last7 == Last7(recent_df)
        days == GroupDates(last7)
        met == {d \in days : GroupSum(last7, d) >= target}
    IN  IF last7 = <<>>
        THEN Pomodoro
        ELSE (IF 10 * Cardinality(met) < 6 * Cardinality(days) THEN Pomodoro ELSE LevelUp)

RECURSIVE SumSquares(_)
SumSquares(df) ==
    IF df = <<>> THEN 0 ELSE Head(df).amount * Head(df).amount + SumSquares(Tail(df))

\* n * (n - 1) * (sample variance of the rows' amounts)
ScaledVariance(df) == Len(df) * SumSquares(df) - SumAmount(df) * SumAmount(df)

\* SleepHabit.recommendation: variance is Series.std() of the rows' amounts,
\* None for no rows and NaN for one row; NaN <= 0.75 is False
\* (std <= 0.75 as 16 * variance <= 9, multiplied by n * (n - 1))
SleepHabit_recommendation(recent_df, target) ==
    LET last7 == Last7(recent_df)
        n == Len(last7)
    IN  IF n = 0 THEN NoData
        ELSE IF n = 1 THEN ScreenOff
        ELSE IF 16 * ScaledVariance(last7) <= 9 * n * (n - 1) THEN Maintain
        ELSE ScreenOff

\* HabitFactory.create(htype, ...) and the polymorphic recommendation call
Recommendation(h_type, recent_df, target) ==
    CASE h_type = "Exercise (minutes)" -> ExerciseHabit_recommendation(recent_df, target)
      [] h_type = "Study (minutes)"    -> StudyHabit_recommendation(recent_df, target)
      [] h_type = "Sleep (hours)"      -> SleepHabit_recommendation(recent_df, target)

\* the frame SQLiteRepo.get_logs returns once the row has been added: ORDER BY
\* date ASC puts it behind the rows of the same or an earlier date
WithRow(df, row) ==
    LET k == Cardinality({i \in 1..Len(df) : df[i].date <= row.date})
    IN  SubSeq(df, 1, k) \o <<row>> \o SubSeq(df, k + 1, Len(df))

\* a habit of some kind and target, no check-in yet, its dashboard computed
InitDashboard ==
    /\ sql = SQLiteRepo_init
    /\ mem = MemoryRepo_init
    /\ call = [op |-> "init"]
    /\ sql_ret = Returned(None)
    /\ mem_ret = Returned(None)
    /\ htype \in TYPES
    /\ htarget \in Targets
    /\ logs = <<>>
    /\ streak = Habit_update_streak(<<>>, htarget)
    /\ rec = Recommendation(htype, <<>>, htarget)

\* the "Log" button, then the dashboard of the same habit: get_logs,
\* refresh_metrics, recommendation
Checkin(date, amount) ==
    /\ Len(logs) < MaxEntries
    /\ logs' = WithRow(logs, [date |-> date, amount |-> amount])
    /\ streak' = Habit_update_streak(logs', htarget)
    /\ rec' = Recommendation(htype, logs', htarget)
    /\ UNCHANGED <<htype, htarget>>
    /\ UNCHANGED repo_vars

NextDashboard == \E d \in CheckinDates, a \in Amounts : Checkin(d, a)

DashboardSpec == InitDashboard /\ [][NextDashboard]_vars

----------------------------------------------------------------------------
(* Claims about the analyzers, checked under DashboardSpec *)

RECURSIVE TotalOver(_, _)
\* the sum of the amounts of the entries of logs at the indices in idx
TotalOver(idx, d) ==
    IF idx = {} THEN 0
    ELSE LET i == CHOOSE j \in idx : TRUE
         IN  (IF logs[i].date = d THEN logs[i].amount ELSE 0) + TotalOver(idx \ {i}, d)

HasEntry(d) == \E i \in 1..Len(logs) : logs[i].date = d
DayTotal(d) == TotalOver(1..Len(logs), d)
DayMet(d) == HasEntry(d) /\ DayTotal(d) >= htarget

Window == (Today - WindowDays)..Today
WindowDaysWithEntries == {d \in Window : HasEntry(d)}

RECURSIVE SumOfTotals(_)
SumOfTotals(days) ==
    IF days = {} THEN 0
    ELSE LET d == CHOOSE x \in days : TRUE IN DayTotal(d) + SumOfTotals(days \ {d})

RECURSIVE SumOfSquaredTotals(_)
SumOfSquaredTotals(days) ==
    IF days = {} THEN 0
    ELSE LET d == CHOOSE x \in days : TRUE
         IN  DayTotal(d) * DayTotal(d) + SumOfSquaredTotals(days \ {d})

\* C4: the streak is the number of consecutive met days counted backward from
\* today, or from yesterday when today has no entry or is not met; a day
\* without entries or with too small a sum ends the count.
StreakCountsConsecutiveMetDays ==
    LET start == IF DayMet(Today) THEN Today ELSE Today - 1
    IN  /\ streak \in Nat
        /\ \A k \in 0..(streak - 1) : DayMet(start - k)
        /\ ~DayMet(start - streak)

\* C4 witness: today is not met, the three days before it are, and the
\* streak is 3.
StreakCarryOverWitness ==
    /\ ~DayMet(Today)
    /\ DayMet(Today - 1) /\ DayMet(Today - 2) /\ DayMet(Today - 3)
    /\ htarget > 0
    /\ streak = 3

\* C5: the study tip is the focus block exactly when (met days of the 7-day
\* window) / 7 < 0.6, days without entries counting as not met.
StudyFractionOfSevenDays ==
    htype = "Study (minutes)" =>
        (rec = Pomodoro <=> 10 * Cardinality({d \in Window : DayMet(d)}) < 6 * 7)

\* C6: the exercise tip is the rest day exactly when the mean of the daily
\* totals over the window's days with entries (0 for none) is >= target.
ExerciseMeanOfDailyTotals ==
    htype = "Exercise (minutes)" =>
        LET days == WindowDaysWithEntries
        IN  rec = RestDay <=>
              (IF days = {} THEN 0 >= htarget
               ELSE SumOfTotals(days) >= htarget * Cardinality(days))

\* C7: the sleep tip is "no data" when at most one day of the window has
\* entries; otherwise "maintain routine" exactly when the sample standard
\* deviation of the daily totals is <= 0.75, and "screen-off" when it is not.
SleepStdOfDailyTotals ==
    htype = "Sleep (hours)" =>
        LET days == WindowDaysWithEntries
            n == Cardinality(days)
            scaled == n * SumOfSquaredTotals(days) - SumOfTotals(days) * SumOfTotals(days)
        IN  rec = IF n <= 1 THEN NoData
                  ELSE IF 16 * scaled <= 9 * n * (n - 1) THEN Maintain
                  ELSE ScreenOff

====
